---- MODULE Spec2Model ----
(***************************************************************************)
(* HR portal browser-extension popup: login, punch in / punch out, status  *)
(* sync, history and timer.  Three variants of the popup script exist in   *)
(* the repository (src/unnamed/part_000, src/popup.js, src/unnamed/part_001)*)
(* and the variable `variant` selects which one a behaviour runs.          *)
(*                                                                         *)
(* Time is in milliseconds, counted from local midnight of 2024-01-01      *)
(* (day 0); the local time zone is taken to be UTC and has no DST, so the  *)
(* calendar date of an instant t is t \div MS_PER_DAY.                     *)
(* A JavaScript string that the code parses is a sequence of one-character *)
(* strings.                                                                *)
(***************************************************************************)
EXTENDS Integers, Sequences, FiniteSets, TLC

-----------------------------------------------------------------------------
(* Bounds of the model *)
MaxEvents == 2
MaxLogouts == 2
\* the longest history the server reports
MaxHistory == 21
\* the seconds that pass while the toasts are watched
MaxSeconds == 5
\* the events (a login, spans of time) while the timer display is watched
MaxClock == 3

-----------------------------------------------------------------------------
(* Program constants and value encodings *)
PUNCH_DELAY_MS == 2 * 60 * 60 * 1000
MS_PER_DAY == 86400000
MS_PER_HOUR == 3600000
\* the delay of the setTimeout in showToast
TOAST_MS == 3000
MS_PER_MIN == 60000

\* undefined / missing key
Absent == -1
\* the number NaN (also what an Invalid Date's getTime() returns)
NaN == -2

Variants == {"part_000", "popup", "part_001"}

\* JavaScript truthiness of a number-or-undefined value
Truthy(x) == x # Absent /\ x # NaN /\ x # 0

\* new Date(t).toDateString(): the local calendar date of instant t
toDateString(t) == t \div MS_PER_DAY

\* local midnight of the day of t (new Date() with setHours(0,0,0,0))
Midnight(t) == toDateString(t) * MS_PER_DAY

\* Math.ceil(a / b) for b > 0
MathCeil(a, b) == -((-a) \div b)

\* Math.floor(a / b) for b > 0
MathFloor(a, b) == a \div b

\* JavaScript a % b (remainder with the sign of the dividend), b > 0
JsRem(a, b) == IF a >= 0 THEN a % b ELSE -((-a) % b)

-----------------------------------------------------------------------------
(* Character level helpers *)
DigitChars == <<"0", "1", "2", "3", "4", "5", "6", "7", "8", "9">>

IsDigit(c) == \E i \in 1..10 : DigitChars[i] = c

DigitVal(c) == (CHOOSE i \in 1..10 : DigitChars[i] = c) - 1

toUpperCase(c) ==
    CASE c = "a" -> "A"
      [] c = "p" -> "P"
      [] c = "m" -> "M"
      [] OTHER -> c

Includes(s, c) == \E i \in 1..Len(s) : s[i] = c

\* s has n digits starting at position i
DigitsAt(s, i, n) == i + n - 1 <= Len(s) /\ \A k \in i..(i + n - 1) : IsDigit(s[k])

CharAt(s, i, c) == i >= 1 /\ i <= Len(s) /\ s[i] = c

\* value of the n-digit number at position i (parseInt(..., 10) of a digit group)
NumAt(s, i, n) ==
    IF n = 1 THEN DigitVal(s[i]) ELSE 10 * DigitVal(s[i]) + DigitVal(s[i + 1])

\* the whole string as a decimal number; NaN unless it is all digits; "" is 0
RECURSIVE DigitsValue(_)
DigitsValue(s) ==
    IF Len(s) = 0 THEN 0
    ELSE 10 * DigitsValue(SubSeq(s, 1, Len(s) - 1)) + DigitVal(s[Len(s)])

ToNumber(s) ==
    IF \A k \in 1..Len(s) : IsDigit(s[k]) THEN DigitsValue(s) ELSE NaN

\* parseInt(s, 10): the leading digits, NaN when there are none
LeadingDigits(s) ==
    LET n == CHOOSE k \in 0..Len(s) :
                 /\ \A j \in 1..k : IsDigit(s[j])
                 /\ (k < Len(s) => ~IsDigit(s[k + 1]))
    IN SubSeq(s, 1, n)

parseInt(s) == IF Len(LeadingDigits(s)) = 0 THEN NaN ELSE DigitsValue(LeadingDigits(s))

\* s.split(sep): the pieces of s between occurrences of the character sep
RECURSIVE Split(_, _)
Split(s, sep) ==
    IF ~Includes(s, sep) THEN <<s>>
    ELSE LET i == CHOOSE k \in 1..Len(s) : s[k] = sep /\ \A j \in 1..(k - 1) : s[j] # sep
         IN <<SubSeq(s, 1, i - 1)>> \o Split(SubSeq(s, i + 1, Len(s)), sep)

-----------------------------------------------------------------------------
(* /(\d{1,2}):(\d{1,2}):(\d{1,2})(?:\s*(AM|PM))?/i *)

\* the three digit groups with lengths l1, l2, l3 match at position i
TimeGroupsAt(s, i, l1, l2, l3) ==
    /\ DigitsAt(s, i, l1)
    /\ CharAt(s, i + l1, ":")
    /\ DigitsAt(s, i + l1 + 1, l2)
    /\ CharAt(s, i + l1 + 1 + l2, ":")
    /\ DigitsAt(s, i + l1 + l2 + 2, l3)

GroupLens == {<<a, b, c>> : a \in 1..2, b \in 1..2, c \in 1..2}

MatchesAt(s, i) == \E l \in GroupLens : TimeGroupsAt(s, i, l[1], l[2], l[3])

\* greedy quantifiers: the longest groups, leftmost group first
GreedyLens(s, i) ==
    CHOOSE l \in GroupLens :
        /\ TimeGroupsAt(s, i, l[1], l[2], l[3])
        /\ \A o \in GroupLens :
              TimeGroupsAt(s, i, o[1], o[2], o[3]) =>
                  4 * o[1] + 2 * o[2] + o[3] <= 4 * l[1] + 2 * l[2] + l[3]

\* first position after position e that does not hold white space
SkipSpaces(s, e) ==
    CHOOSE j \in e..(Len(s) + 1) :
        /\ \A k \in e..(j - 1) : s[k] = " "
        /\ (j <= Len(s) => s[j] # " ")

\* the optional (AM|PM) group after the digits ending before position e
ModifierAt(s, e) ==
    LET j == SkipSpaces(s, e)
    IN IF j + 1 <= Len(s) /\ toUpperCase(s[j + 1]) = "M"
          /\ toUpperCase(s[j]) \in {"A", "P"}
       THEN (IF toUpperCase(s[j]) = "A" THEN "AM" ELSE "PM")
       ELSE "none"

\* String.prototype.match with the pattern above: the leftmost match, as
\* [found, hours, minutes, seconds, modifier]
MatchGroups(s, i, l) ==
    [found |-> TRUE,
     hours |-> NumAt(s, i, l[1]),
     minutes |-> NumAt(s, i + l[1] + 1, l[2]),
     seconds |-> NumAt(s, i + l[1] + l[2] + 2, l[3]),
     modifier |-> ModifierAt(s, i + l[1] + l[2] + l[3] + 2)]

MatchFrom(s, i) == MatchGroups(s, i, GreedyLens(s, i))

LeftmostMatch(s) ==
    CHOOSE k \in 1..Len(s) : MatchesAt(s, k) /\ \A j \in 1..(k - 1) : ~MatchesAt(s, j)

timeStr(s) ==
    IF \E i \in 1..Len(s) : MatchesAt(s, i)
    THEN MatchFrom(s, LeftmostMatch(s))
    ELSE [found |-> FALSE, hours |-> 0, minutes |-> 0, seconds |-> 0, modifier |-> "none"]

\* today.setHours(h, m, s, 0); today.getTime(): out-of-range fields roll over
setHours(t, h, m, s) ==
    IF h = NaN \/ m = NaN \/ s = NaN THEN NaN
    ELSE Midnight(t) + h * MS_PER_HOUR + m * MS_PER_MIN + s * 1000

\* the AM/PM adjustment of the hour
AdjustHours(hours, modifier) ==
    IF modifier = "PM" /\ hours < 12 THEN hours + 12
    ELSE IF modifier = "AM" /\ hours = 12 THEN 0
    ELSE hours

\* new Date(s).getTime() for a string without ':' : the date-only ISO form
\* "2024-01-DD" is UTC midnight of that day, anything else is an Invalid Date
DateParse(s) ==
    IF /\ Len(s) = 10
       /\ SubSeq(s, 1, 8) = <<"2", "0", "2", "4", "-", "0", "1", "-">>
       /\ DigitsAt(s, 9, 2)
       /\ NumAt(s, 9, 2) \in 1..31
    THEN (NumAt(s, 9, 2) - 1) * MS_PER_DAY
    ELSE NaN

-----------------------------------------------------------------------------
(* The punchInTime field of a /user/status response: missing, a string or  *)
(* a number.                                                               *)
Str(chars) == [kind |-> "str", s |-> chars]

TimeMissing == [kind |-> "missing", s |-> <<>>]
TimeNumber == [kind |-> "num", s |-> <<>>]
Time_10_16_29_AM == Str(<<"1", "0", ":", "1", "6", ":", "2", "9", " ", "A", "M">>)
Time_12_05_00_AM == Str(<<"1", "2", ":", "0", "5", ":", "0", "0", " ", "A", "M">>)
Time_1_30_00_PM == Str(<<"1", ":", "3", "0", ":", "0", "0", " ", "P", "M">>)
Time_12_00_00_PM == Str(<<"1", "2", ":", "0", "0", ":", "0", "0", " ", "P", "M">>)
Time_08_15_00 == Str(<<"0", "8", ":", "1", "5", ":", "0", "0">>)
TimeIsoDateTime == Str(<<"2", "0", "2", "4", "-", "0", "1", "-", "0", "1", "T", "0", "8", ":", "0", "0", ":", "0", "0", "Z">>)
TimeIsoDate == Str(<<"2", "0", "2", "4", "-", "0", "1", "-", "0", "2">>)
TimeGarbage == Str(<<"n", "/", "a">>)

\* the values the server sends in the behaviours explored
ServerTimes == <<TimeMissing, Time_1_30_00_PM, TimeIsoDateTime>>

\* truthiness of the field (a number in a response is taken to be non-zero)
ServerTimeTruthy(sv) == sv.kind = "num" \/ (sv.kind = "str" /\ Len(sv.s) > 0)

\* the time of day of a match m on the date of t; Absent (undefined) when
\* nothing matched
TimeOfDay(m, t) ==
    IF m.found
    THEN setHours(t, AdjustHours(m.hours, m.modifier), m.minutes, m.seconds)
    ELSE Absent

\* part_000: parsedTime of a string
parsedTime000(sv, t) ==
    IF Includes(sv.s, ":") THEN TimeOfDay(timeStr(sv.s), t) ELSE DateParse(sv.s)

\* popup.js: parsedTime of a string; there is no branch for strings without ':'
parsedTimePopup(sv, t) ==
    IF Includes(sv.s, ":") THEN TimeOfDay(timeStr(sv.s), t) ELSE Absent

\* Number() of element i of a split result; NaN for undefined past its end
Piece(parts, i) == IF i <= Len(parts) THEN ToNumber(parts[i]) ELSE NaN

\* part_001: "very basic parsing" by split(' ') and split(':')
\* parseInt(hours, 10) + 12
PlusTwelve(n) == IF n = NaN THEN NaN ELSE n + 12

\* the hours setHours receives: '12' becomes '00', then PM adds 12
Hours001(hours, modifier) ==
    IF modifier = <<"P", "M">> THEN PlusTwelve(parseInt(hours)) ELSE ToNumber(hours)

Time001(parts, modifier, t) ==
    setHours(t,
             Hours001(IF parts[1] = <<"1", "2">> THEN <<"0", "0">> ELSE parts[1], modifier),
             Piece(parts, 2), Piece(parts, 3))

Words001(words, t) ==
    Time001(Split(words[1], ":"), IF Len(words) >= 2 THEN words[2] ELSE <<>>, t)

serverTime001(sv, t) == Words001(Split(sv.s, " "), t)

\* The part of fetchStatus that runs when the server reports punched in:
\* from the local punchInTime read from storage and the server's field to
\* the startTime used afterwards, and whether it is written to storage.
\* AdoptStart preferring the server's string over the local punchInTime
AdoptStartServerFirst(v, local, sv, t) ==
    IF ServerTimeTruthy(sv) /\ sv.kind = "str"
    THEN [startTime |-> TimeOfDay(timeStr(sv.s), t), write |-> TRUE]
    ELSE [startTime |-> local, write |-> FALSE]

\* parsedTime || Date.now()
OrNow(parsedTime, t) == IF Truthy(parsedTime) THEN parsedTime ELSE t

AdoptStart(v, local, sv, t) ==
    IF Truthy(local) THEN [startTime |-> local, write |-> FALSE]
    ELSE IF v = "part_000"
    THEN [startTime |-> OrNow(IF ServerTimeTruthy(sv) /\ sv.kind = "str"
                              THEN parsedTime000(sv, t) ELSE Absent, t),
          write |-> TRUE]
    ELSE IF v = "popup"
    THEN IF ~ServerTimeTruthy(sv) THEN [startTime |-> local, write |-> FALSE]
         ELSE IF sv.kind = "num" THEN [startTime |-> t, write |-> FALSE]
         ELSE [startTime |-> OrNow(parsedTimePopup(sv, t), t), write |-> TRUE]
    ELSE IF ~ServerTimeTruthy(sv) \/ sv.kind = "num"
         THEN [startTime |-> local, write |-> FALSE]
         ELSE [startTime |-> serverTime001(sv, t), write |-> TRUE]

-----------------------------------------------------------------------------
(* State *)
VARIABLES
    variant,        \* which of the three scripts runs
    now,            \* Date.now()
    ticks,          \* number of clock advances so far
    opens,          \* number of times the popup was reopened
    logins,         \* number of POST /login requests sent
    store,          \* chrome.storage.local
    ui,             \* the DOM nodes the script writes
    timerInterval,  \* the module variable: 0 (null) or an interval id
    liveTimers,     \* the intervals that are ticking: {[id, start]}
    toastTimers,    \* the pending timeouts of showToast: when each is due
    punch,          \* the handlePunch invocation in progress (type and
                    \* timestamp: the fields of its /punch/action request;
                    \* token: the bearer token of its request in flight;
                    \* label: the text of the punch button when it was clicked)
    punch2,         \* a second handlePunch invocation, begun by a click made
                    \* while the first awaited chrome.storage.local.get
    sync,           \* the fetchMe / fetchHistory / fetchStatus of syncState
                    \* (token: the bearer token of its requests in flight)
    logouts,        \* handleLogout invocations awaiting POST /logout, by cause
                    \* and by the token they read when they began
    last,           \* the handler step that produced this state
    shift           \* the stored history when the latest punch-in succeeded,
                    \* and the calendar day of the latest successful punch-out

vars == <<variant, now, ticks, opens, logins, store, ui, timerInterval,
          liveTimers, toastTimers, punch, punch2, sync, logouts, last, shift>>

\* the events of the environment counted against MaxEvents
Events == ticks + opens + logins

NoToken == ""
Tokens == {"T1", "T2"}
NoName == <<>>
Employee == <<"E", "m", "p", "l", "o", "y", "e", "e">>
NoUser == [name |-> NoName, email |-> NoName]
NoCreds == [email |-> NoName, password |-> NoName]
\* the text of the timer display: none written yet, and '00:00:00'
NoDisplay == <<>>
ZeroDisplay == <<"0", "0", ":", "0", "0", ":", "0", "0">>
Unset == "unset"

EmptyStore ==
    [token |-> NoToken, user |-> NoUser, punchInTime |-> Absent,
     history |-> <<>>, savedCreds |-> NoCreds, theme |-> "none"]

\* the popup document as loaded, before the script has written to it
FreshUI ==
    [view |-> Unset, userName |-> NoName, btnText |-> Unset, btnCls |-> Unset,
     btnMarked |-> FALSE, btnDisabled |-> FALSE, statusText |-> Unset,
     timerDisplay |-> NoDisplay, historyList |-> <<>>,
     toast |-> [msg |-> "none", n |-> 0], toastShown |-> FALSE,
     logoutDisabled |-> FALSE, theme |-> Unset, attached |-> FALSE]

NoPunch == [pc |-> "idle", type |-> "none", now |-> 0, timestamp |-> 0,
            isPunchedIn |-> FALSE, isIn |-> FALSE, sv |-> 1, local |-> Absent,
            label |-> Unset, token |-> NoToken]
NoSync == [me |-> "idle", hist |-> "idle", status |-> "idle",
           isIn |-> FALSE, sv |-> 1, local |-> Absent, token |-> NoToken]
NoLogouts == [b \in BOOLEAN |-> [t \in Tokens |-> 0]]

NoShift == [open |-> FALSE, history |-> <<>>, outDay |-> Absent]

\* shift after a step of handlePunch that takes the invocation from p to q:
\* opened by a successful punch-in, closed when a successful punch-out ends
ShiftAfter(p, q, succeeded, history) ==
    LET outDay == IF succeeded /\ p.type = "out" THEN toDateString(now) ELSE shift.outDay
    IN IF succeeded /\ p.type = "in"
       THEN [open |-> TRUE, history |-> history, outDay |-> outDay]
       ELSE IF p.type = "out" /\ q.pc = "idle" /\ (succeeded \/ p.pc # "req")
       THEN [NoShift EXCEPT !.outDay = outDay]
       ELSE [shift EXCEPT !.outDay = outDay]

\* the Error a call rejects with is its message, split where the code
\* concatenates; NoError when nothing was thrown
NoError == <<>>

\* the email and the password handleLogin found in the form, and the token
\* and the name of the answer and the state of the 'remember me' checkbox
\* when it was a success
NoLogin == [token |-> "", name |-> <<>>, email |-> <<>>, password |-> <<>>,
            remember |-> FALSE]

\* resp and err: the kind of the answer apiFetch received in the step, and
\* the Error it threw at its caller; token: the token read at its start by
\* the handleLogout that ended in the step
Last(op, tag, p, sv) ==
    [op |-> op, tag |-> tag, p |-> p, sv |-> sv, resp |-> "none", err |-> NoError,
     login |-> NoLogin, token |-> NoToken]

\* the state the handlers read and write, passed through their steps
World ==
    [store |-> store, ui |-> ui, timerInterval |-> timerInterval,
     liveTimers |-> liveTimers, toastTimers |-> toastTimers, logouts |-> logouts]

Commit(w) ==
    /\ store' = w.store
    /\ ui' = w.ui
    /\ timerInterval' = w.timerInterval
    /\ liveTimers' = w.liveTimers
    /\ toastTimers' = w.toastTimers
    /\ logouts' = w.logouts

LogoutsInFlight(w) ==
    w.logouts[TRUE]["T1"] + w.logouts[TRUE]["T2"]
        + w.logouts[FALSE]["T1"] + w.logouts[FALSE]["T2"]

-----------------------------------------------------------------------------
(* UI helpers *)
\* the text, the class 'show', and a timeout that will remove the class
showToast(w, msg, n) ==
    [w EXCEPT !.ui.toast = [msg |-> msg, n |-> n],
              !.ui.toastShown = TRUE,
              !.toastTimers = @ \cup {now + TOAST_MS}]

transitionToView(w, view) == [w EXCEPT !.ui.view = view]

setupDashboard(w, user) ==
    transitionToView(
        [w EXCEPT !.ui.userName = IF user.name # NoName THEN user.name ELSE Employee],
        "dashboard")

\* the decimal digits of n >= 0
RECURSIVE Decimal(_)
Decimal(n) ==
    IF n < 10 THEN <<DigitChars[n + 1]>>
    ELSE Decimal(n \div 10) \o <<DigitChars[(n % 10) + 1]>>

\* String(n) of an integer n
String(n) == IF n < 0 THEN <<"-">> \o Decimal(-n) ELSE Decimal(n)

\* str.padStart(targetLength, padString) for a padString of one character
RECURSIVE padStart(_, _, _)
padStart(str, targetLength, padString) ==
    IF Len(str) >= targetLength THEN str
    ELSE padStart(<<padString>> \o str, targetLength, padString)

\* update() showing the hour of the day in place of the hours elapsed
updateHourOfDay(diff) ==
    padStart(String(MathFloor(diff, MS_PER_HOUR) % 24), 2, "0") \o <<":">>
        \o padStart(String(MathFloor(JsRem(diff, MS_PER_HOUR), MS_PER_MIN)), 2, "0")
        \o <<":">>
        \o padStart(String(MathFloor(JsRem(diff, MS_PER_MIN), 1000)), 2, "0")

\* the timeString that update() of startTimer writes for diff = now - startTime
update(diff) ==
    padStart(String(MathFloor(diff, MS_PER_HOUR)), 2, "0") \o <<":">>
        \o padStart(String(MathFloor(JsRem(diff, MS_PER_HOUR), MS_PER_MIN)), 2, "0")
        \o <<":">>
        \o padStart(String(MathFloor(JsRem(diff, MS_PER_MIN), 1000)), 2, "0")

FreshTimerId(live) == CHOOSE i \in 1..(Cardinality(live) + 1) :
                          /\ \A r \in live : r.id # i
                          /\ \A j \in 1..(i - 1) : \E r \in live : r.id = j

clearInterval(live, id) == {r \in live : r.id # id}

\* startTimer without the clearInterval of the interval it holds
startTimerNoClear(w, startTime, t) ==
    LET id == FreshTimerId(w.liveTimers)
    IN [w EXCEPT !.ui.timerDisplay = update(t - startTime),
                 !.timerInterval = id,
                 !.liveTimers = w.liveTimers \cup {[id |-> id, start |-> startTime]}]

startTimer(w, startTime, t) ==
    LET live == IF w.timerInterval # 0
                THEN clearInterval(w.liveTimers, w.timerInterval)
                ELSE w.liveTimers
        id == FreshTimerId(live)
    IN [w EXCEPT !.ui.timerDisplay = update(t - startTime),
                 !.timerInterval = id,
                 !.liveTimers = live \cup {[id |-> id, start |-> startTime]}]

stopTimer(w) ==
    [w EXCEPT !.liveTimers = IF w.timerInterval # 0
                             THEN clearInterval(w.liveTimers, w.timerInterval)
                             ELSE w.liveTimers,
              !.timerInterval = 0]

updatePunchUI(w, active, punchInTime, t) ==
    [w EXCEPT !.ui.btnText = IF active THEN "Punch Out" ELSE "Punch In",
              !.ui.btnCls = IF active THEN "out" ELSE "in",
              !.ui.btnMarked = active /\ Truthy(punchInTime)
                               /\ t - punchInTime < PUNCH_DELAY_MS,
              !.ui.statusText = IF active THEN "Online" ELSE "Offline",
              !.ui.timerDisplay = IF ~active THEN ZeroDisplay ELSE @]

\* the <div class="empty-log"> that stands in the list for an empty history
EmptyLog == [type |-> "empty-log", timestamp |-> Absent]

\* renderHistory keeping the oldest five entries in the order of the history
renderHistoryOldest(w, history) ==
    LET n == Len(history)
        k == IF n < 5 THEN n ELSE 5
    IN IF n = 0 THEN [w EXCEPT !.ui.historyList = <<EmptyLog>>]
       ELSE [w EXCEPT !.ui.historyList = [i \in 1..k |-> history[i]]]

\* the placeholder for an empty history, else history.slice(-5).reverse()
renderHistory(w, history) ==
    LET n == Len(history)
        k == IF n < 5 THEN n ELSE 5
    IN IF n = 0 THEN [w EXCEPT !.ui.historyList = <<EmptyLog>>]
       ELSE [w EXCEPT !.ui.historyList = [i \in 1..k |-> history[n + 1 - i]]]

\* setLoading(nodes.punchBtn, isLoading, originalText)
setLoadingPunch(w, isLoading, originalText) ==
    IF isLoading THEN [w EXCEPT !.ui.btnDisabled = TRUE]
    ELSE [w EXCEPT !.ui.btnDisabled = FALSE, !.ui.btnText = originalText]

-----------------------------------------------------------------------------
(* Logout *)

\* handleLogout is called either by the click on the logout button
\* (expired = FALSE) or by apiFetch and handlePunch when the token is missing
\* or rejected (expired = TRUE).  part_000 passes { preservePunch: true } in
\* the second case and, the click event having no such property, defaults to
\* false in the first; popup.js and part_001 take no argument.
preservePunch(v, expired) == v = "part_000" /\ expired

\* the keys handleLogout removes from storage
removeOnLogout(st, v, expired) ==
    IF v = "part_001" THEN EmptyStore
    ELSE IF preservePunch(v, expired)
    THEN [st EXCEPT !.token = NoToken, !.user = NoUser]
    ELSE [st EXCEPT !.token = NoToken, !.user = NoUser, !.punchInTime = Absent]

\* handleLogout from the storage removal to its end
logoutFinish(w, v, expired) ==
    showToast(
        transitionToView(
            stopTimer([w EXCEPT !.store = removeOnLogout(w.store, v, expired)]),
            "login"),
        "loggedOut", 0)

\* handleLogout up to its POST /logout; without a token it runs to its end
handleLogout(w, v, expired) ==
    IF w.store.token # NoToken
    THEN [w EXCEPT !.ui.logoutDisabled = TRUE,
                   !.logouts[expired][w.store.token] = @ + 1]
    ELSE logoutFinish(w, v, expired)

-----------------------------------------------------------------------------
(* Responses of the server *)
Ok(http) == http >= 200 /\ http <= 299

Failures == {[kind |-> "netfail"], [kind |-> "401"], [kind |-> "err"]}

PunchBody(http, status, success, error) ==
    [kind |-> "json", http |-> http, status |-> status, success |-> success,
     error |-> error]

\* JSON bodies of /punch/action: the HTTP status, the body's status field
\* ("none" when it has none), success === true, and a truthy error field
PunchBodies ==
    {PunchBody(200, "success", FALSE, FALSE),
     PunchBody(200, "none", FALSE, FALSE),
     PunchBody(200, "error", FALSE, FALSE),
     PunchBody(200, "none", TRUE, TRUE),
     PunchBody(201, "success", FALSE, FALSE),
     PunchBody(500, "success", FALSE, FALSE)}

PunchResponses ==
    {[kind |-> "netfail"], [kind |-> "401"], [kind |-> "nonjson"]} \cup PunchBodies

StatusResponses ==
    Failures \cup [kind : {"ok"}, isIn : BOOLEAN, sv : 1..Len(ServerTimes)]

MeNames == {<<"A">>}
BusinessEmail == <<"a", "@", "b", ".", "c", "o", "m">>
MeResponses == Failures \cup [kind : {"ok"}, name : MeNames]

Entry(type, timestamp) == [type |-> type, timestamp |-> timestamp]

\* the histories the server may report at time t
ServerHistories(t) ==
    {<<>>, <<Entry("in", Midnight(t)), Entry("out", Midnight(t) + 1000)>>}

HistoryResponses(t) == Failures \cup [kind : {"ok"}, history : ServerHistories(t)]

\* a history of n entries, punch-ins and punch-outs in turn, the last of
\* them a minute before t
History(n, t) ==
    [i \in 1..n |-> Entry(IF i % 2 = 1 THEN "in" ELSE "out", t - (n + 1 - i) * MS_PER_MIN)]

\* the server reports a history of any length up to MaxHistory
LongHistoryResponses(t) == [kind : {"ok"}, history : {History(n, t) : n \in 0..MaxHistory}]

\* is the punch response treated as a success
punchSucceeded(v, r) ==
    LET hasError == r.error \/ r.status = "error"
        isSuccess == r.status = "success" \/ r.success
    IN IF v = "part_001" THEN Ok(r.http) /\ r.status = "success"
       ELSE Ok(r.http) /\ r.http = 200 /\ (isSuccess \/ ~hasError)

-----------------------------------------------------------------------------
(* fetchMe, fetchHistory and fetchStatus from the response on *)

SessionExpired == <<"Session expired">>

\* the TypeError that fetch rejects with on a transport failure
FailedToFetch == <<"Failed to fetch">>

\* new Error(`Network request failed: ${error.message}`)
NetworkRequestFailed(message) == <<"Network request failed">> \o message

\* the Error apiFetch rejects with on the answer r: part_000 and popup.js
\* throw 'Session expired' inside the try block whose catch wraps whatever
\* it catches; part_001 has no try block
apiFetchThrown(v, r) ==
    IF r.kind = "401"
    THEN IF v = "part_001" THEN SessionExpired ELSE NetworkRequestFailed(SessionExpired)
    ELSE IF r.kind = "netfail"
    THEN IF v = "part_001" THEN FailedToFetch ELSE NetworkRequestFailed(FailedToFetch)
    ELSE NoError

\* the label of a step in which apiFetch settled on the answer r
LastFetch(op, tag, p, sv, r) ==
    [Last(op, tag, p, sv) EXCEPT !.resp = r.kind, !.err = apiFetchThrown(variant, r)]

\* apiFetchFailed forcing the logout on every non-OK status
apiFetchFailedNonOk(w, v, r) ==
    IF r.kind \in {"401", "err"} THEN handleLogout(w, v, TRUE) ELSE w

\* apiFetch on a response that is not returned to the caller
apiFetchFailed(w, v, r) ==
    IF r.kind = "401" THEN handleLogout(w, v, TRUE) ELSE w

\* apiFetch when storage holds no token
apiFetchNoToken(w, v) == handleLogout(w, v, TRUE)

fetchMeDone(w, v, r) ==
    IF r.kind = "ok"
    THEN [w EXCEPT !.ui.userName = r.name,
                   !.store.user = [name |-> r.name, email |-> BusinessEmail]]
    ELSE apiFetchFailed(w, v, r)

fetchHistoryDone(w, v, r) ==
    IF r.kind = "ok"
    THEN [renderHistory(w, r.history) EXCEPT !.store.history = r.history]
    ELSE apiFetchFailed(w, v, r)

\* fetchStatus reads the local punchInTime before it decides
statusReadsLocal(v, r) == r.kind = "ok" /\ (v = "part_000" \/ r.isIn)

\* fetchStatus on a response after which it does not read storage
fetchStatusDone(w, v, r, t) ==
    IF r.kind = "ok"
    THEN updatePunchUI(stopTimer([w EXCEPT !.store.punchInTime = Absent]),
                       FALSE, Absent, t)
    ELSE apiFetchFailed(w, v, r)

\* fetchStatus from the local punchInTime it read to its end
\* the timer and the button once startTime is settled
ShowPunchedIn(w, v, startTime, t) ==
    IF v = "part_000" \/ Truthy(startTime)
    THEN updatePunchUI(startTimer(w, startTime, t), TRUE, startTime, t)
    ELSE w

\* the write of an adopted startTime to storage, and what follows it
Adopted(w, v, a, t) ==
    ShowPunchedIn(IF a.write THEN [w EXCEPT !.store.punchInTime = a.startTime] ELSE w,
                  v, a.startTime, t)

fetchStatusApply(w, v, isIn, sv, local, t) ==
    IF isIn
    THEN Adopted(w, v, AdoptStart(v, local, sv, t), t)
    ELSE IF Truthy(local)
         THEN updatePunchUI(startTimer(w, local, t), TRUE, local, t)
         ELSE updatePunchUI(stopTimer(w), FALSE, Absent, t)

-----------------------------------------------------------------------------
(* Inputs of the environment *)
StartTime == MS_PER_DAY + 9 * MS_PER_HOUR
Deltas == {100000, PUNCH_DELAY_MS, MS_PER_DAY}

\* spans for the timer display: a second, 59 min 59 s, and 100 h 1 s
ClockDeltas == {1000, 3599000, 100 * MS_PER_HOUR + 1000}

Emails == {<<>>, <<" ">>, <<"a", "@", "b", ".", "c", "o", "m">>}
Passwords == {<<>>, <<"x">>}
LoginNames == {<<"A">>}
Remembers == {FALSE}

\* the server issues a new token at each login
IssuedToken(n) == IF n <= 1 THEN "T1" ELSE "T2"

\* the answers to the n-th login request
LoginResponses(n) ==
    {[kind |-> "netfail"],
     [kind |-> "json", http |-> 401, token |-> NoToken, name |-> NoName]}
        \cup [kind : {"json"}, http : {200}, token : {IssuedToken(n)},
              name : LoginNames \cup {NoName}]

\* String.prototype.trim for blanks
RECURSIVE trim(_)
trim(s) ==
    IF Len(s) > 0 /\ s[1] = " " THEN trim(Tail(s))
    ELSE IF Len(s) > 0 /\ s[Len(s)] = " " THEN trim(SubSeq(s, 1, Len(s) - 1))
    ELSE s

-----------------------------------------------------------------------------
(* Startup *)
restoreLocalState(w, t) ==
    IF w.store.token = NoToken THEN w
    ELSE IF Truthy(w.store.punchInTime)
    THEN updatePunchUI(startTimer(w, w.store.punchInTime, t), TRUE, w.store.punchInTime, t)
    ELSE updatePunchUI(w, FALSE, Absent, t)

\* the popup as init leaves it, from what storage holds
Opened(st, v, t) ==
    LET w0 == [store |-> st,
               ui |-> [FreshUI EXCEPT !.theme = IF st.theme # "none" THEN st.theme ELSE "dark"],
               timerInterval |-> 0, liveTimers |-> {}, toastTimers |-> {},
               logouts |-> NoLogouts]
    IN IF st.token = NoToken
       THEN [transitionToView(w0, "login") EXCEPT !.ui.attached = TRUE]
       ELSE IF v = "part_000"
       THEN [restoreLocalState(setupDashboard(w0, st.user), t) EXCEPT !.ui.attached = TRUE]
       ELSE setupDashboard(w0, st.user)

\* the requests of syncState: popup.js and part_001 issue the three at once
\* and init awaits them; part_000 issues /me and /punch/history from a 500 ms
\* timeout (taken to fire before anything else happens) and /user/status when
\* both have settled
syncState(st, v) ==
    IF st.token = NoToken THEN NoSync
    ELSE IF v = "part_000"
    THEN [NoSync EXCEPT !.me = "req", !.hist = "req", !.status = "wait",
                        !.token = st.token]
    ELSE [NoSync EXCEPT !.me = "req", !.hist = "req", !.status = "req",
                        !.token = st.token]

\* first run of the popup: storage is empty
Init ==
    /\ variant \in Variants
    /\ now = StartTime
    /\ ticks = 0
    /\ opens = 0
    /\ logins = 0
    /\ store = EmptyStore
    /\ ui = Opened(EmptyStore, variant, StartTime).ui
    /\ timerInterval = 0
    /\ liveTimers = {}
    /\ toastTimers = {}
    /\ punch = NoPunch
    /\ punch2 = NoPunch
    /\ sync = NoSync
    /\ logouts = NoLogouts
    /\ last = Last("other", "none", Absent, 0)
    /\ shift = NoShift

\* the popup is closed and opened again: a new document runs init
init ==
    /\ Events < MaxEvents
    /\ opens' = opens + 1
    /\ Commit(Opened(store, variant, now))
    /\ sync' = syncState(store, variant)
    /\ punch' = NoPunch
    /\ punch2' = NoPunch
    /\ last' = Last("init", "none", Absent, 0)
    /\ shift' = ShiftAfter(punch, NoPunch, FALSE, store.history)
    /\ UNCHANGED <<variant, now, ticks, logins>>

\* the display after the live intervals have run update() at time t
Ticked(u, live, t) ==
    IF live = {} THEN u
    ELSE [u EXCEPT !.timerDisplay = update(t - (CHOOSE r \in live : TRUE).start)]

\* the callbacks of the timeouts of showToast that are due at time t have run
Dismissed(u, timers, t) ==
    IF \E due \in timers : due <= t THEN [u EXCEPT !.toastShown = FALSE] ELSE u

\* time passes by one of the given spans (none shorter than the 1000 ms
\* period of the timer's interval, so every live interval has run its
\* update()), at most max times
TickOf(deltas, max) ==
    /\ Events < max
    /\ \E d \in deltas :
          /\ now' = now + d
          /\ ui' = Dismissed(Ticked(ui, liveTimers, now + d), toastTimers, now + d)
          /\ toastTimers' = {due \in toastTimers : due > now + d}
    /\ ticks' = ticks + 1
    /\ last' = Last("other", "none", Absent, 0)
    /\ UNCHANGED <<variant, opens, logins, store, timerInterval, liveTimers,
                   punch, punch2, sync, logouts, shift>>

Tick == TickOf(Deltas, MaxEvents)

\* a second passes
TickSecond == TickOf({1000}, MaxSeconds)

\* one of the spans of the timer display passes
TickClock == TickOf(ClockDeltas, MaxClock)

-----------------------------------------------------------------------------
(* Background sync *)

\* what follows the completion of one of the sync requests: part_000 sends
\* /user/status once /me and /punch/history are done; popup.js and part_001
\* attach the click handlers once all three are done
SyncAdvance(w, s, v) ==
    LET sendStatus == s.status = "wait" /\ s.me = "idle" /\ s.hist = "idle"
        w1 == IF sendStatus /\ w.store.token = NoToken THEN apiFetchNoToken(w, v) ELSE w
        s1 == IF sendStatus
              THEN [s EXCEPT !.status = IF w.store.token = NoToken THEN "idle" ELSE "req",
                             !.token = w.store.token]
              ELSE s
        allDone == s1.status = "idle" /\ s1.me = "idle" /\ s1.hist = "idle"
    IN [w |-> [w1 EXCEPT !.ui.attached = @ \/ allDone],
        s |-> IF allDone THEN [s1 EXCEPT !.token = NoToken] ELSE s1]

CommitSync(res) == Commit(res.w) /\ sync' = res.s

\* q: the record of the invocation after the step
CommitPunch(q, res) == Commit(res.w) /\ q = res.p

MayLogout(r) == r.kind = "401" => LogoutsInFlight(World) < MaxLogouts

fetchMe ==
    /\ sync.me = "req"
    /\ \E r \in MeResponses :
          /\ MayLogout(r)
          /\ CommitSync(SyncAdvance(fetchMeDone(World, variant, r),
                                    [sync EXCEPT !.me = "idle"], variant))
          /\ last' = LastFetch("fetchMe", r.kind, Absent, 0, r)
    /\ UNCHANGED <<variant, now, ticks, opens, logins, punch, punch2, shift>>

\* fetchHistory of syncState on one of the given answers
fetchHistoryOf(responses) ==
    /\ sync.hist = "req"
    /\ \E r \in responses :
          /\ MayLogout(r)
          /\ CommitSync(SyncAdvance(fetchHistoryDone(World, variant, r),
                                    [sync EXCEPT !.hist = "idle"], variant))
          /\ last' = LastFetch("fetchHistory", r.kind, Absent, 0, r)
    /\ UNCHANGED <<variant, now, ticks, opens, logins, punch, punch2, shift>>

fetchHistory == fetchHistoryOf(HistoryResponses(now))

\* fetchHistory of syncState when the server holds a long history
fetchLongHistory == fetchHistoryOf(LongHistoryResponses(now))

\* fetchStatus of syncState, from the response to the read of local storage
fetchStatus ==
    /\ sync.status = "req"
    /\ \E r \in StatusResponses :
          /\ MayLogout(r)
          /\ IF statusReadsLocal(variant, r)
             THEN /\ sync' = [sync EXCEPT !.status = "got", !.isIn = r.isIn, !.sv = r.sv,
                                          !.local = store.punchInTime]
                  /\ UNCHANGED <<store, ui, timerInterval, liveTimers, toastTimers, logouts>>
                  /\ last' = Last("other", "none", Absent, 0)
             ELSE /\ CommitSync(SyncAdvance(fetchStatusDone(World, variant, r, now),
                                            [sync EXCEPT !.status = "idle"], variant))
                  /\ last' = LastFetch("fetchStatus",
                                       IF r.kind = "ok" THEN "notInNoRead" ELSE r.kind,
                                       store.punchInTime, 0, r)
    /\ UNCHANGED <<variant, now, ticks, opens, logins, punch, punch2, shift>>

\* fetchStatus of syncState, from the value read from local storage to its end
fetchStatusLocal ==
    /\ sync.status = "got"
    /\ CommitSync(SyncAdvance(
                      fetchStatusApply(World, variant, sync.isIn, ServerTimes[sync.sv],
                                       sync.local, now),
                      [sync EXCEPT !.status = "idle", !.isIn = FALSE, !.sv = 1,
                                   !.local = Absent], variant))
    /\ last' = Last("fetchStatus", IF sync.isIn THEN "in" ELSE "notIn", sync.local, sync.sv)
    /\ UNCHANGED <<variant, now, ticks, opens, logins, punch, punch2, shift>>

-----------------------------------------------------------------------------
(* Login and logout *)

\* loginUser that ignores the name of the response
loginUserFromEmail(r, email) == [name |-> Split(email, "@")[1], email |-> email]

\* the user record handleLogin builds
loginUser(r, email) ==
    [name |-> IF r.name # NoName THEN r.name ELSE Split(email, "@")[1], email |-> email]

\* rememberMe storing the credentials whatever the checkbox says
rememberAlways(email, password, remember) == [email |-> email, password |-> password]

\* savedCreds after the 'Handle Remember Me' block of a successful login
rememberMe(email, password, remember) ==
    IF remember THEN [email |-> email, password |-> password] ELSE NoCreds

\* handleLogin from the response to its end
loginDone(w, r, email, password, remember, t) ==
    LET w1 == IF r.kind = "json" /\ Ok(r.http) /\ r.token # NoToken
              THEN LET user == loginUser(r, email)
                       w2 == [w EXCEPT !.store.savedCreds =
                                           rememberMe(email, password, remember),
                                       !.store.token = r.token,
                                       !.store.user = user]
                   IN showToast(
                          updatePunchUI(renderHistory(setupDashboard(w2, user), <<>>),
                                        FALSE, Absent, t),
                          "welcome", 0)
              ELSE IF r.kind = "json" THEN showToast(w, "loginFailed", 0)
              ELSE showToast(w, "connError", 0)
    IN w1

\* !email || !password, with the validation of the password left out
invalidEmailOnly(email, password) == email = <<>>

\* !email || !password
invalidCredentials(email, password) == email = <<>> \/ password = <<>>

\* handleLogin, from the click to the end of its finally block; nothing the
\* popup offers while the login view waits for POST /login reads what the
\* click has written, so the request and its response are one step
handleLoginOf(remembers) ==
    /\ ui.view = "login" /\ ui.attached
    /\ \E e \in Emails, pw \in Passwords :
          LET email == trim(e)
              form == [NoLogin EXCEPT !.email = e, !.password = pw]
          IN IF invalidCredentials(email, pw)
             THEN /\ Commit(showToast(World, "invalid", 0))
                  /\ UNCHANGED logins
                  /\ last' = [Last("handleLogin", "invalid", Absent, 0)
                                 EXCEPT !.login = form]
             ELSE /\ Events < MaxEvents
                  /\ logins' = logins + 1
                  /\ \E r \in LoginResponses(logins + 1), remember \in remembers :
                        /\ Commit(loginDone(World, r, email, pw, remember, now))
                        /\ last' = IF r.kind = "json" /\ Ok(r.http) /\ r.token # NoToken
                                   THEN [Last("handleLogin", "success", Absent, 0)
                                            EXCEPT !.login = [form EXCEPT !.token = r.token,
                                                                          !.name = r.name,
                                                                          !.remember = remember]]
                                   ELSE [Last("handleLogin", "failed", Absent, 0)
                                            EXCEPT !.login = form]
    /\ UNCHANGED <<variant, now, ticks, opens, punch, punch2, sync, shift>>

handleLogin == handleLoginOf(Remembers)

\* handleLogin with the 'remember me' checkbox in either state
handleLoginRemember == handleLoginOf(BOOLEAN)

\* a click on the logout button: handleLogout called with the click event
logoutClick ==
    /\ ui.view = "dashboard" /\ ui.attached /\ ~ui.logoutDisabled
    /\ LogoutsInFlight(World) < MaxLogouts
    /\ Commit(handleLogout(World, variant, FALSE))
    /\ last' = Last("handleLogout", "click", Absent, 0)
    /\ UNCHANGED <<variant, now, ticks, opens, logins, punch, punch2, sync, shift>>

\* how POST /logout may settle: a 2xx status, another status, a transport
\* failure
LogoutOutcomes == {"ok", "err", "netfail"}

\* logoutSettled without the catch block: a transport failure ends handleLogout
logoutSettledUncaught(w, v, expired, outcome) ==
    IF outcome = "netfail" THEN w ELSE logoutFinish(w, v, expired)

\* handleLogout from the settling of POST /logout on: the answer is not
\* looked at and the catch block swallows a rejection
logoutSettled(w, v, expired, outcome) == logoutFinish(w, v, expired)

\* POST /logout settles in one of the given ways
handleLogoutResponseOf(outcomes) ==
    /\ \E b \in BOOLEAN, t \in Tokens, o \in outcomes :
          /\ logouts[b][t] > 0
          /\ Commit(logoutSettled([World EXCEPT !.logouts[b][t] = @ - 1,
                                                !.ui.logoutDisabled = FALSE],
                                  variant, b, o))
          /\ last' = [Last("handleLogout", IF b THEN "expired" ELSE "done", Absent, 0)
                         EXCEPT !.token = t, !.resp = o]
    /\ UNCHANGED <<variant, now, ticks, opens, logins, punch, punch2, sync, shift>>

\* POST /logout settles; which way makes no difference to handleLogout, and
\* one way stands for all
handleLogoutResponse == handleLogoutResponseOf({"ok"})

\* POST /logout settles in any of the three ways
handleLogoutSettles == handleLogoutResponseOf(LogoutOutcomes)

-----------------------------------------------------------------------------
(* Punch in / punch out *)

\* hasPunchedOutToday looking at the first entry of the history only
hasPunchedOutFirst(history, t) ==
    /\ Len(history) > 0
    /\ history[1].type = "out"
    /\ toDateString(history[1].timestamp) = toDateString(t)

\* history.some(item => item.type === 'out' && date of item.timestamp is today)
hasPunchedOutToday(history, t) ==
    \E i \in 1..Len(history) :
        history[i].type = "out" /\ toDateString(history[i].timestamp) = toDateString(t)

\* remaining with Math.floor in place of Math.ceil
remainingFloor(punchInTime, t) == MathFloor(PUNCH_DELAY_MS - (t - punchInTime), MS_PER_MIN)

\* the minutes reported by the minimum-stay refusal
remaining(punchInTime, t) == MathCeil(PUNCH_DELAY_MS - (t - punchInTime), MS_PER_MIN)

\* the 2-hour delay validation
tooEarly(punchInTime, t) == t - punchInTime < PUNCH_DELAY_MS

\* the finally block of handlePunch
punchFinally(w, p) ==
    setLoadingPunch(w, FALSE, IF p.isPunchedIn THEN "Punch Out" ELSE "Punch In")

\* handlePunch from the answer of chrome.storage.local.get to the POST
\* /punch/action; q is the record of the invocation after the step
punchProceed(q) ==
    LET isPunchedIn == Truthy(store.punchInTime)
    IN IF store.token = NoToken
       THEN /\ Commit(handleLogout(World, variant, TRUE))
            /\ q = NoPunch
            /\ last' = Last("handlePunch", "noToken", Absent, 0)
       ELSE IF ~isPunchedIn /\ hasPunchedOutToday(store.history, now)
       THEN /\ Commit(showToast(World, "completed", 0))
            /\ q = NoPunch
            /\ last' = Last("handlePunch", "completed", Absent, 0)
       ELSE IF isPunchedIn /\ tooEarly(store.punchInTime, now)
       THEN /\ Commit(showToast(World, "minstay", remaining(store.punchInTime, now)))
            /\ q = NoPunch
            /\ last' = Last("handlePunch", "minstay", Absent, 0)
       ELSE /\ Commit(setLoadingPunch(World, TRUE, Unset))
            /\ q = [NoPunch EXCEPT !.pc = "req",
                                   !.type = IF isPunchedIn THEN "out" ELSE "in",
                                   !.now = now,
                                   !.timestamp = MathFloor(now, 1000),
                                   !.isPunchedIn = isPunchedIn,
                                   !.label = ui.btnText,
                                   !.token = store.token]
            /\ last' = Last("handlePunch", "sent", Absent, 0)

\* handlePunch from the click to the POST /punch/action, when no other click
\* comes before storage has answered: the click and the answer are one step
handlePunch ==
    /\ ui.view = "dashboard" /\ ui.attached /\ ~ui.btnDisabled
    /\ punch.pc = "idle"
    /\ \E onLine \in BOOLEAN :
          IF ~onLine
          THEN /\ Commit(showToast(World, "offline", 0))
               /\ punch' = punch
               /\ last' = Last("handlePunch", "offline", Absent, 0)
          ELSE punchProceed(punch')
    /\ UNCHANGED <<variant, now, ticks, opens, logins, punch2, sync, shift>>

\* a click on the punch button, up to the await of chrome.storage.local.get,
\* for the invocation p
handlePunchClickOf(p, q) ==
    /\ ui.view = "dashboard" /\ ui.attached /\ ~ui.btnDisabled
    /\ p.pc = "idle"
    /\ \E onLine \in BOOLEAN :
          IF ~onLine
          THEN /\ Commit(showToast(World, "offline", 0))
               /\ q = p
               /\ last' = Last("handlePunch", "offline", Absent, 0)
          ELSE /\ q = [NoPunch EXCEPT !.pc = "read"]
               /\ UNCHANGED <<store, ui, timerInterval, liveTimers, toastTimers, logouts>>
               /\ last' = Last("handlePunch", "click", Absent, 0)
    /\ UNCHANGED <<variant, now, ticks, opens, logins, sync, shift>>

\* the click starts the first invocation, or the second while the first runs
handlePunchClick ==
    \/ handlePunchClickOf(punch, punch') /\ UNCHANGED punch2
    \/ punch.pc # "idle" /\ handlePunchClickOf(punch2, punch2') /\ UNCHANGED punch

\* handlePunch from the answer of storage on, for the invocation p
handlePunchReadOf(p, q) ==
    /\ p.pc = "read"
    /\ punchProceed(q)
    /\ UNCHANGED <<variant, now, ticks, opens, logins, sync, shift>>

handlePunchRead ==
    \/ handlePunchReadOf(punch, punch') /\ UNCHANGED punch2
    \/ handlePunchReadOf(punch2, punch2') /\ UNCHANGED punch

\* the click and the answer of storage as two steps of the one invocation
handlePunchBegin == handlePunchClickOf(punch, punch') /\ UNCHANGED punch2

handlePunchGotStorage == handlePunchReadOf(punch, punch') /\ UNCHANGED punch2

\* the success branch of handlePunch up to its refresh request
punchApplied(w, p, t) ==
    IF p.type = "in"
    THEN showToast(
             updatePunchUI(startTimer([w EXCEPT !.store.punchInTime = p.now], p.now, t),
                           TRUE, p.now, t),
             "punchedIn", 0)
    ELSE showToast(
             updatePunchUI(stopTimer([w EXCEPT !.store.punchInTime = Absent]),
                           FALSE, Absent, t),
             "punchedOut", 0)

\* punchRefresh with an apiFetch that sends its request without looking for
\* the token
punchRefreshUnguarded(w, v, p) ==
    [w |-> w, p |-> [p EXCEPT !.pc = IF v = "part_001" THEN "status" ELSE "hist",
                              !.token = w.store.token]]

\* the refresh that follows a successful punch: its first request, or the end
\* of handlePunch when storage holds no token any more
punchRefresh(w, v, p) ==
    IF w.store.token # NoToken
    THEN [w |-> w, p |-> [p EXCEPT !.pc = IF v = "part_001" THEN "status" ELSE "hist",
                                   !.token = w.store.token]]
    ELSE [w |-> punchFinally(
                    IF v = "part_001"
                    THEN apiFetchNoToken(apiFetchNoToken(w, v), v)
                    ELSE apiFetchNoToken(w, v), p),
          p |-> NoPunch]

\* the response r of /punch/action is treated as a success
punchAccepted(v, r) == r.kind = "json" /\ punchSucceeded(v, r)

\* the else branch and the catch block of handlePunch without the finally
\* block
punchRejectedNoFinally(w, v, p, r) ==
    showToast(apiFetchFailed(w, v, r),
              IF r.kind = "json" THEN "actionFailed"
              ELSE IF r.kind = "nonjson" /\ v # "part_001" THEN "serverError"
              ELSE "punchFailed", 0)

\* the else branch and the catch block of handlePunch, and its finally block
punchRejected(w, v, p, r) ==
    punchFinally(
        showToast(apiFetchFailed(w, v, r),
                  IF r.kind = "json" THEN "actionFailed"
                  ELSE IF r.kind = "nonjson" /\ v # "part_001" THEN "serverError"
                  ELSE "punchFailed", 0),
        p)

\* handlePunch from the response r of /punch/action to its next await or
\* its end: the world and the record of the invocation afterwards
punchSettled(w, v, p, r, t) ==
    IF punchAccepted(v, r)
    THEN punchRefresh(punchApplied(w, p, t), v, p)
    ELSE [w |-> punchRejected(w, v, p, r), p |-> NoPunch]

\* handlePunch from the response of /punch/action on
handlePunchResponseOf(p, q) ==
    /\ p.pc = "req"
    /\ \E r \in PunchResponses :
          /\ MayLogout(r)
          /\ CommitPunch(q, punchSettled(World, variant, p, r, now))
          /\ IF punchAccepted(variant, r)
             THEN /\ last' = Last("handlePunch", p.type, Absent, 0)
                  /\ shift' = ShiftAfter(p, q, TRUE, store.history)
             ELSE /\ last' = LastFetch("handlePunch", "failed", Absent, 0, r)
                  /\ shift' = shift
    /\ UNCHANGED <<variant, now, ticks, opens, logins, sync>>

\* the request of fetchHistory that follows fetchStatus in part_001's handlePunch
punchHistory(w, v, p) ==
    IF w.store.token # NoToken
    THEN [w |-> w, p |-> [p EXCEPT !.pc = "hist", !.isIn = FALSE, !.sv = 1,
                                   !.local = Absent, !.token = w.store.token]]
    ELSE [w |-> punchFinally(apiFetchNoToken(w, v), p), p |-> NoPunch]

\* part_001: the fetchStatus awaited by handlePunch, up to the read of storage
handlePunchStatusOf(p, q) ==
    /\ p.pc = "status"
    /\ \E r \in StatusResponses :
          /\ MayLogout(r)
          /\ IF statusReadsLocal(variant, r)
             THEN /\ q = [p EXCEPT !.pc = "got", !.isIn = r.isIn, !.sv = r.sv,
                                            !.local = store.punchInTime]
                  /\ UNCHANGED <<store, ui, timerInterval, liveTimers, toastTimers, logouts>>
                  /\ last' = Last("other", "none", Absent, 0)
             ELSE /\ CommitPunch(q, punchHistory(fetchStatusDone(World, variant, r, now),
                                             variant, p))
                  /\ last' = LastFetch("fetchStatus",
                                       IF r.kind = "ok" THEN "notInNoRead" ELSE r.kind,
                                       store.punchInTime, 0, r)
    /\ shift' = ShiftAfter(p, q, FALSE, store.history)
    /\ UNCHANGED <<variant, now, ticks, opens, logins, sync>>

\* part_001: the fetchStatus awaited by handlePunch, from the value it read on
handlePunchStatusLocalOf(p, q) ==
    /\ p.pc = "got"
    /\ CommitPunch(q, punchHistory(
                      fetchStatusApply(World, variant, p.isIn, ServerTimes[p.sv],
                                       p.local, now),
                      variant, p))
    /\ last' = Last("fetchStatus", IF p.isIn THEN "in" ELSE "notIn", p.local,
                    p.sv)
    /\ shift' = ShiftAfter(p, q, FALSE, store.history)
    /\ UNCHANGED <<variant, now, ticks, opens, logins, sync>>

\* the fetchHistory awaited by handlePunch, and the finally block
handlePunchHistoryOf(p, q) ==
    /\ p.pc = "hist"
    /\ \E r \in HistoryResponses(now) :
          /\ MayLogout(r)
          /\ Commit(punchFinally(fetchHistoryDone(World, variant, r), p))
          /\ last' = LastFetch("handlePunch", "done", Absent, 0, r)
    /\ q = NoPunch
    /\ shift' = ShiftAfter(p, NoPunch, FALSE, store.history)
    /\ UNCHANGED <<variant, now, ticks, opens, logins, sync>>

\* the write to chrome.storage.local in the success branch rejects: part_000
\* catches it around the write of a punch-in and returns, otherwise the
\* catch block of handlePunch takes it; the finally block follows
punchStorageFailed(w, v, p) ==
    punchFinally(
        showToast(w, IF v = "part_000" /\ p.type = "in" THEN "storageError"
                     ELSE "punchFailed", 0),
        p)

\* /punch/action is answered with a success and the write to storage fails
handlePunchStorageError ==
    /\ punch.pc = "req"
    /\ Commit(punchStorageFailed(World, variant, punch))
    /\ punch' = NoPunch
    /\ last' = Last("handlePunch", "storageError", Absent, 0)
    /\ UNCHANGED <<variant, now, ticks, opens, logins, punch2, sync, shift>>

\* the steps of the first invocation
handlePunchResponse == handlePunchResponseOf(punch, punch') /\ UNCHANGED punch2

handlePunchStatus == handlePunchStatusOf(punch, punch') /\ UNCHANGED punch2

handlePunchStatusLocal == handlePunchStatusLocalOf(punch, punch') /\ UNCHANGED punch2

handlePunchHistory == handlePunchHistoryOf(punch, punch') /\ UNCHANGED punch2

\* the steps of the second invocation
handlePunchResponse2 == handlePunchResponseOf(punch2, punch2') /\ UNCHANGED punch

handlePunchStatus2 == handlePunchStatusOf(punch2, punch2') /\ UNCHANGED punch

handlePunchStatusLocal2 == handlePunchStatusLocalOf(punch2, punch2') /\ UNCHANGED punch

handlePunchHistory2 == handlePunchHistoryOf(punch2, punch2') /\ UNCHANGED punch

-----------------------------------------------------------------------------
Next ==
    \/ init
    \/ Tick
    \/ fetchMe
    \/ fetchHistory
    \/ fetchStatus
    \/ fetchStatusLocal
    \/ handleLogin
    \/ logoutClick
    \/ handleLogoutResponse
    \/ handlePunch
    \/ handlePunchResponse
    \/ handlePunchStatus
    \/ handlePunchStatusLocal
    \/ handlePunchHistory

Spec == Init /\ [][Next]_vars

\* the popup of a user who logs in and reopens it, with a server whose
\* history has any length up to MaxHistory
NextHistory ==
    \/ init
    \/ handleLogin
    \/ fetchLongHistory

SpecHistory == Init /\ [][NextHistory]_vars

\* the popup of a user who logs in and clicks the punch button, a second
\* click being possible whenever the button is enabled (a POST /logout sent
\* meanwhile stays unanswered)
NextTwoClicks ==
    \/ handleLogin
    \/ handlePunchClick
    \/ handlePunchRead
    \/ handlePunchResponse
    \/ handlePunchStatus
    \/ handlePunchStatusLocal
    \/ handlePunchHistory
    \/ handlePunchResponse2
    \/ handlePunchStatus2
    \/ handlePunchStatusLocal2
    \/ handlePunchHistory2

SpecTwoClicks == Init /\ [][NextTwoClicks]_vars

\* the popup of a user who logs in, with 'remember me' checked or not, and
\* out, POST /logout settling in any way, and reopens the popup
NextSession ==
    \/ init
    \/ fetchMe
    \/ fetchHistory
    \/ fetchStatus
    \/ fetchStatusLocal
    \/ handleLoginRemember
    \/ logoutClick
    \/ handleLogoutSettles

SpecSession == Init /\ [][NextSession]_vars

\* the login view watched second by second while the user submits the form
NextToast ==
    \/ handleLogin
    \/ TickSecond

SpecToast == Init /\ [][NextToast]_vars

\* the popup of a user who logs in and punches, the timer display watched
\* over seconds, hours and days
NextClock ==
    \/ handleLogin
    \/ TickClock
    \/ handlePunch
    \/ handlePunchResponse
    \/ handlePunchStatus
    \/ handlePunchStatusLocal
    \/ handlePunchHistory

SpecClock == Init /\ [][NextClock]_vars

\* the popup with its startup sync, logins and logouts, where a logout may
\* end between the click on the punch button and the answer of storage
NextTokens ==
    \/ init
    \/ fetchMe
    \/ fetchHistory
    \/ fetchStatus
    \/ fetchStatusLocal
    \/ handleLogin
    \/ logoutClick
    \/ handleLogoutResponse
    \/ handlePunchBegin
    \/ handlePunchGotStorage
    \/ handlePunchResponse
    \/ handlePunchStatus
    \/ handlePunchStatusLocal
    \/ handlePunchHistory

SpecTokens == Init /\ [][NextTokens]_vars

\* the popup of a user who logs in and punches in and out, where the writes
\* of the success branch may fail; a read of chrome.storage.local that has
\* been issued is answered
NextLive ==
    \/ handleLogin
    \/ Tick
    \/ handlePunch
    \/ handlePunchResponse
    \/ handlePunchStorageError
    \/ handlePunchStatus
    \/ handlePunchStatusLocal
    \/ handlePunchHistory

\* what handlePunchStatusLocal does to the record of the invocation:
\* fetchStatus leaves the token alone, so the request of fetchHistory
\* depends on the storage the step found
handlePunchStatusLocalRecord ==
    punch.pc = "got" /\ punch' = punchHistory(World, variant, punch).p

\* no other step changes the record of an invocation that waits for the
\* read, so this is weak fairness of handlePunchStatusLocal
SpecLive == Init /\ [][NextLive]_vars /\ WF_punch(handlePunchStatusLocalRecord)

TypeOK ==
    /\ variant \in Variants
    /\ store.token \in Tokens \cup {NoToken}
    /\ ui.view \in {"login", "dashboard"}
    /\ punch.pc \in {"idle", "read", "req", "status", "got", "hist"}
    /\ Cardinality(liveTimers) <= 1

-----------------------------------------------------------------------------
(* Properties *)

\* the steps of fetchStatus that end it on a failed request or on an OK
\* response with isPunchedIn = false
StatusNotInTags == {"notIn", "notInNoRead"}
StatusFailedTags == {"netfail", "401", "err"}

\* the step ends a run of fetchStatus in one of the given ways and runs
\* nothing after it (in part_001's handlePunch the fetchHistory that follows
\* fetchStatus logs out in the same step when storage holds no token)
StatusEnds(tags) ==
    /\ last'.op = "fetchStatus"
    /\ last'.tag \in tags
    /\ (punch.pc \in {"status", "got"} => store.token # NoToken)

\* the steps of handlePunch that a click takes before any request
PunchClickTags == {"offline", "noToken", "completed", "minstay", "sent"}

\* the interval held in timerInterval is ticking and counts from p
RunningFrom(live, id, p) == id # 0 /\ \E r \in live : r.id = id /\ r.start = p

\* the punch button and the status line show the punched-in state
ShowsPunchedIn(u) == u.btnText = "Punch Out" /\ u.statusText = "Online"

\* C1: in src/popup.js and in src/unnamed/part_000, a punchInTime that is
\* stored is still stored, with the same value, after any run of fetchStatus
\* that failed or that received isPunchedIn = false.
C1_FetchStatusKeepsPunchInTime ==
    [][(/\ variant \in {"part_000", "popup"}
        /\ StatusEnds(StatusNotInTags \cup StatusFailedTags)
        /\ Truthy(store.punchInTime))
       => store'.punchInTime = store.punchInTime]_vars

\* C2: the only step that removes a stored punchInTime is the success branch
\* of a punch-out in handlePunch; fetchStatus, handleLogout and every other
\* operation leave it in storage.
C2_OnlyPunchOutRemoves ==
    [][(store.punchInTime # Absent /\ store'.punchInTime = Absent)
       => (last'.op = "handlePunch" /\ last'.tag = "out")]_vars

\* C3: the handleLogout that follows an HTTP 401 (or a missing token) removes
\* token and user and shows the login view, and neither it nor the next
\* successful handleLogin changes the stored punchInTime.
C3_ExpiryKeepsPunchInTime ==
    [][/\ (last'.op = "handleLogout" /\ last'.tag = "expired")
              => /\ store'.token = NoToken
                 /\ store'.user = NoUser
                 /\ ui'.view = "login"
                 /\ store'.punchInTime = store.punchInTime
       /\ (last'.op = "handleLogin" /\ last'.tag = "success")
              => store'.punchInTime = store.punchInTime]_vars

\* C4: a click on the punch button (online, token stored) while punchInTime = p
\* is stored and now - p < 2 hours sends no request, leaves storage unchanged
\* and shows the minimum-stay message with ceil((2h - (now - p)) / 60000).
C4_MinStayRefusal ==
    [][(/\ last'.op = "handlePunch"
        /\ last'.tag \in PunchClickTags \ {"offline", "noToken"}
        /\ Truthy(store.punchInTime)
        /\ now - store.punchInTime < PUNCH_DELAY_MS)
       => /\ punch' = punch
          /\ store' = store
          /\ ui'.toast = [msg |-> "minstay",
                          n |-> MathCeil(PUNCH_DELAY_MS - (now - store.punchInTime),
                                         MS_PER_MIN)]]_vars

\* C4 witness: a refusal 100 s after the punch-in, reporting 119 minutes
\* (118.33 rounded up)
C4_Witness ==
    /\ last.op = "handlePunch" /\ last.tag = "minstay"
    /\ Truthy(store.punchInTime)
    /\ now - store.punchInTime = 100000
    /\ ui.toast = [msg |-> "minstay", n |-> 119]
    /\ punch.pc = "idle"

\* the stored history holds an entry of type 'out' dated on the day of t
OutToday(history, t) ==
    \E i \in 1..Len(history) :
        history[i].type = "out" /\ history[i].timestamp \div MS_PER_DAY = t \div MS_PER_DAY

\* C5: a click on the punch button (online, token stored) with no punchInTime
\* stored while the stored history holds an 'out' entry dated today sends no
\* request and leaves storage unchanged.
C5_SingleShiftRefusal ==
    [][(/\ last'.op = "handlePunch"
        /\ last'.tag \in PunchClickTags \ {"offline", "noToken"}
        /\ ~Truthy(store.punchInTime)
        /\ OutToday(store.history, now))
       => /\ punch' = punch
          /\ store' = store
          /\ last'.tag = "completed"]_vars

\* C5 witness: such a click has been refused
C5_Witness ==
    /\ last.op = "handlePunch" /\ last.tag = "completed"
    /\ ~Truthy(store.punchInTime)
    /\ OutToday(store.history, now)
    /\ punch.pc = "idle"
    /\ ui.toast.msg = "completed"

\* h1 is h0 followed by an 'in' and an 'out' entry, timestamps not decreasing
GainedInOut(h0, h1) ==
    /\ Len(h1) = Len(h0) + 2
    /\ SubSeq(h1, 1, Len(h0)) = h0
    /\ h1[Len(h0) + 1].type = "in"
    /\ h1[Len(h0) + 2].type = "out"
    /\ h1[Len(h0) + 1].timestamp <= h1[Len(h0) + 2].timestamp
    /\ (Len(h0) > 0 => h0[Len(h0)].timestamp <= h1[Len(h0) + 1].timestamp)

\* C6: when the handlePunch of a successful punch-out that follows a
\* successful punch-in has ended, the stored history is the history of
\* before the punch-in followed by an 'in' and an 'out' entry with
\* non-decreasing timestamps, whatever the refreshes returned.
C6_HistoryGainsInOut ==
    [][(/\ last'.op = "handlePunch" /\ last'.tag = "done"
        /\ punch.type = "out"
        /\ shift.open)
       => GainedInOut(shift.history, store'.history)]_vars

\* C7: when fetchStatus ends on an OK response with isPunchedIn = false and
\* a punchInTime p was stored when it looked, the button reads 'Punch Out',
\* the status reads 'Online' and the timer runs from p.
C7_NotInKeepsPunchedInUI ==
    [][(/\ StatusEnds(StatusNotInTags)
        /\ Truthy(last'.p))
       => /\ ShowsPunchedIn(ui')
          /\ RunningFrom(liveTimers', timerInterval', last'.p)]_vars

\* C8: when fetchStatus ends on isPunchedIn = true and read a stored
\* punchInTime p, it leaves storage as it is and the timer, its display and
\* the punch UI are driven from p, whatever string the server sent.
C8_LocalPreferred ==
    [][(/\ StatusEnds({"in"})
        /\ Truthy(last'.p))
       => /\ store' = store
          /\ RunningFrom(liveTimers', timerInterval', last'.p)
          /\ ui'.timerDisplay = update(now - last'.p)
          /\ ShowsPunchedIn(ui')
          /\ ui'.btnMarked = (now - last'.p < PUNCH_DELAY_MS)]_vars

\* C8 witness: the server sent '1:30:00 PM' while another punchInTime was
\* stored, and the stored one still is
C8_Witness ==
    /\ last.op = "fetchStatus" /\ last.tag = "in"
    /\ Truthy(last.p)
    /\ ServerTimes[last.sv] = Time_1_30_00_PM
    /\ store.punchInTime = last.p
    /\ last.p # Midnight(now) + 13 * MS_PER_HOUR + 30 * MS_PER_MIN
    /\ RunningFrom(liveTimers, timerInterval, last.p)

\* the instant the claim assigns to a server string received at time t
DenotedInstant(sv, t) ==
    CASE sv = TimeIsoDateTime -> 8 * MS_PER_HOUR
      [] sv = TimeIsoDate -> MS_PER_DAY
      [] sv = Time_10_16_29_AM -> Midnight(t) + 10 * MS_PER_HOUR + 16 * MS_PER_MIN + 29000
      [] sv = Time_12_05_00_AM -> Midnight(t) + 5 * MS_PER_MIN
      [] sv = Time_1_30_00_PM -> Midnight(t) + 13 * MS_PER_HOUR + 30 * MS_PER_MIN
      [] sv = Time_12_00_00_PM -> Midnight(t) + 12 * MS_PER_HOUR
      [] sv = Time_08_15_00 -> Midnight(t) + 8 * MS_PER_HOUR + 15 * MS_PER_MIN
      [] OTHER -> Absent

\* C9: when fetchStatus ends on isPunchedIn = true, read no stored
\* punchInTime and the server sent an ISO datetime or an 'HH:MM:SS [AM|PM]'
\* string, the instant the string denotes is stored as punchInTime and the
\* timer runs from it.
C9_ServerTimeAdopted ==
    [][(/\ StatusEnds({"in"})
        /\ ~Truthy(last'.p)
        /\ DenotedInstant(ServerTimes[last'.sv], now) # Absent)
       => /\ store'.punchInTime = DenotedInstant(ServerTimes[last'.sv], now)
          /\ RunningFrom(liveTimers', timerInterval',
                         DenotedInstant(ServerTimes[last'.sv], now))]_vars

\* C10: when fetchStatus ends on isPunchedIn = true, read no stored
\* punchInTime and the server sent no punchInTime or one that denotes no
\* instant, the punch UI shows punched in and the timer runs from the
\* current time.
C10_FallbackToNow ==
    [][(/\ StatusEnds({"in"})
        /\ ~Truthy(last'.p)
        /\ DenotedInstant(ServerTimes[last'.sv], now) = Absent)
       => /\ ShowsPunchedIn(ui')
          /\ RunningFrom(liveTimers', timerInterval', now)]_vars

\* the history list shows the last five entries of h, newest first
ShowsHistory(u, h) ==
    /\ Len(u.historyList) = (IF Len(h) < 5 THEN Len(h) ELSE 5)
    /\ \A i \in 1..Len(u.historyList) : u.historyList[i] = h[Len(h) + 1 - i]

\* the punch UI shows what a stored punchInTime p (or none) calls for
ShowsLocalPunch(u, live, id, p) ==
    IF Truthy(p)
    THEN ShowsPunchedIn(u) /\ RunningFrom(live, id, p)
    ELSE u.btnText = "Punch In" /\ u.statusText = "Offline" /\ live = {}

\* C11: when init has run with a token in storage and the requests of
\* syncState go out, the punch UI shows the stored punchInTime and the
\* history list shows the stored history.
C11_LocalFirstRender ==
    [][(last'.op = "init" /\ store.token # NoToken)
       => /\ sync'.me = "req"
          /\ ShowsLocalPunch(ui', liveTimers', timerInterval', store.punchInTime)
          /\ ShowsHistory(ui', store.history)]_vars

\* the step ends fetchMe, fetchStatus or fetchHistory of syncState on a
\* failure of one of the given kinds while a token is stored
SyncStepFails(kinds) ==
    /\ last'.op \in {"fetchMe", "fetchStatus", "fetchHistory"}
    /\ last'.tag \in kinds
    /\ punch.pc \notin {"status", "got"}
    /\ store.token # NoToken

\* the step leaves storage, the timer and what the document shows as they
\* are and starts no handleLogout
LeavesApplied ==
    /\ store' = store
    /\ timerInterval' = timerInterval
    /\ liveTimers' = liveTimers
    /\ [ui' EXCEPT !.attached = ui.attached] = ui
    /\ logouts' = logouts

\* C12 as stated: a failure of fetchMe, fetchStatus or fetchHistory in
\* syncState (transport error, any non-OK status, unparseable body) leaves
\* what the other steps wrote untouched and sets nothing in motion that
\* would undo it.
C12_SyncFailureIsolated ==
    [][SyncStepFails(StatusFailedTags) => LeavesApplied]_vars

\* C12 amended: the same for every failure other than an HTTP 401, which
\* starts the forced logout.
C12_SyncFailureIsolatedBut401 ==
    [][SyncStepFails(StatusFailedTags \ {"401"}) => LeavesApplied]_vars

\* C12 witness: in popup.js fetchHistory failed last of the three, and the
\* punched-in state that fetchStatus adopted and stored is still in place
C12_Witness ==
    /\ variant = "popup"
    /\ last.op = "fetchHistory" /\ last.tag = "netfail"
    /\ sync = NoSync
    /\ punch.pc = "idle"
    /\ Truthy(store.punchInTime)
    /\ ShowsPunchedIn(ui)
    /\ RunningFrom(liveTimers, timerInterval, store.punchInTime)
    /\ ui.attached

\* C13: the step in which handlePunch ends on a failed /punch/action
\* (transport failure, non-JSON body or an answer that is not a success)
\* leaves the stored punchInTime and history, the status line and the timer
\* as they are, and the punch button reads what it read when it was clicked.
C13_FailedPunchRestores ==
    [][(last'.op = "handlePunch" /\ last'.tag = "failed")
       => /\ store'.punchInTime = store.punchInTime
          /\ store'.history = store.history
          /\ ui'.btnText = punch.label
          /\ ui'.statusText = ui.statusText
          /\ timerInterval' = timerInterval
          /\ liveTimers' = liveTimers]_vars

\* the Error is the network error of apiFetch's catch block
IsNetworkError(e) == Len(e) > 0 /\ e[1] = "Network request failed"

\* C14: in src/popup.js and src/unnamed/part_000 an apiFetch that receives
\* HTTP 401 rejects with the 'Session expired' error and not with a network
\* error, and one that fails at transport rejects with the network error
\* that carries the cause.
C14_ExpiredIsNotNetworkError ==
    [][/\ (variant \in {"part_000", "popup"} /\ last'.resp = "401")
              => (last'.err = SessionExpired /\ ~IsNetworkError(last'.err))
       /\ (variant \in {"part_000", "popup"} /\ last'.resp = "netfail")
              => (IsNetworkError(last'.err) /\ Tail(last'.err) = FailedToFetch)]_vars

\* the part of an email address before its first '@'
RECURSIVE LocalPart(_)
LocalPart(email) ==
    IF email = <<>> \/ Head(email) = "@" THEN <<>>
    ELSE <<Head(email)>> \o LocalPart(Tail(email))

\* the name a login is to be shown and stored with
NameOf(login) == IF login.name # <<>> THEN login.name ELSE LocalPart(trim(login.email))

\* C15: when handleLogin ends on an OK answer that carries a token, storage
\* holds that token and a user with the name of the answer (the local part
\* of the email when the answer has none) and the email given, and the
\* dashboard is shown with that name.
C15_LoginStoresSession ==
    [][(last'.op = "handleLogin" /\ last'.tag = "success")
       => /\ last'.login.token # NoToken
          /\ store'.token = last'.login.token
          /\ store'.user = [name |-> NameOf(last'.login), email |-> trim(last'.login.email)]
          /\ ui'.view = "dashboard"
          /\ ui'.userName = NameOf(last'.login)]_vars

\* C15 witness: the login of a@b.com answered with token T1 and name A
C15_Witness ==
    /\ last.op = "handleLogin" /\ last.tag = "success"
    /\ last.login = [token |-> "T1", name |-> <<"A">>, email |-> BusinessEmail,
                     password |-> <<"x">>, remember |-> FALSE]
    /\ store.token = "T1"
    /\ store.user.name = <<"A">>
    /\ ui.view = "dashboard"
    /\ ui.userName = <<"A">>

\* the string holds nothing but blanks
IsBlank(str) == \A i \in 1..Len(str) : str[i] = " "

\* C16: a handleLogin that finds a blank email or an empty password in the
\* form sends no POST /login, leaves storage as it is, stays on the login
\* view and shows the message about the credentials.
C16_EmptyCredentialsRefused ==
    [][(/\ last'.op = "handleLogin"
        /\ (IsBlank(last'.login.email) \/ last'.login.password = <<>>))
       => /\ logins' = logins
          /\ store' = store
          /\ ui.view = "login" /\ ui'.view = "login"
          /\ ui'.toast.msg = "invalid"]_vars

\* C16 witness: a@b.com with an empty password has been refused
C16_Witness ==
    /\ last.op = "handleLogin" /\ last.tag = "invalid"
    /\ last.login.email = BusinessEmail
    /\ last.login.password = <<>>
    /\ logins = 0
    /\ store = EmptyStore
    /\ ui.view = "login"
    /\ ui.toast.msg = "invalid"

\* C17: a step that removes a stored token is the end of a handleLogout
\* that began in the session of that token, i.e. that read this very token
\* when it began; a handleLogout begun in an earlier session removes
\* nothing of the session a later handleLogin stored.
C17_StaleLogoutSparesSession ==
    [][(store.token # NoToken /\ store'.token = NoToken)
       => (last'.op = "handleLogout" /\ last'.token = store.token)]_vars

\* C18: at most one interval is ticking; it is the one held in timerInterval
\* when the last call was startTimer (timerInterval is set) and there is none
\* when the last call was stopTimer (timerInterval is null).
C18_OneLiveTimer ==
    /\ Cardinality(liveTimers) <= 1
    /\ timerInterval # 0 => \E r \in liveTimers : r.id = timerInterval /\ liveTimers = {r}
    /\ timerInterval = 0 => liveTimers = {}

\* C18 witness: in part_000 fetchStatus has called startTimer for the stored
\* punchInTime while the interval that restoreLocalState started for it at
\* init was ticking, and one interval ticks
C18_Witness ==
    /\ variant = "part_000"
    /\ opens > 0
    /\ last.op = "fetchStatus" /\ last.tag \in {"in", "notIn"}
    /\ Truthy(last.p)
    /\ ui.view = "dashboard"
    /\ Cardinality(liveTimers) = 1
    /\ RunningFrom(liveTimers, timerInterval, last.p)

\* C19: while the login view is shown (from the end of a handleLogout to the
\* next successful handleLogin) no interval is ticking, whatever was in
\* flight when the logout began.
C19_NoTimerOnLoginView ==
    ui.view = "login" => (liveTimers = {} /\ timerInterval = 0)

\* the step runs stopTimer: a successful punch-out, a fetchStatus that ends
\* on isPunchedIn = false with no punchInTime stored, or the end of a
\* handleLogout
StopsTimer ==
    \/ last'.op = "handlePunch" /\ last'.tag = "out"
    \/ last'.op = "fetchStatus" /\ last'.tag = "notInNoRead"
    \/ last'.op = "fetchStatus" /\ last'.tag = "notIn" /\ ~Truthy(last'.p)
    \/ last'.op = "handleLogout" /\ last'.tag \in {"done", "expired"}

\* C20: after a step that runs stopTimer on a ticking interval, no interval
\* is held in timerInterval and the timer display reads 00:00:00.
C20_StoppedTimerReadsZero ==
    [][(StopsTimer /\ timerInterval # 0)
       => /\ timerInterval' = 0
          /\ ui'.timerDisplay = ZeroDisplay]_vars


-----------------------------------------------------------------------------
\* C21: in every reachable state the stored history holds at most 20
\* entries, whatever the length of the history fetchHistory received.
C21_HistoryAtMost20 == Len(store.history) <= 20

\* the list shows the placeholder for an empty h, else the last five entries
\* of h (all of them when h has fewer), newest first, each with its type
Displays(list, h) ==
    IF Len(h) = 0 THEN list = <<EmptyLog>>
    ELSE /\ Len(list) = (IF Len(h) < 5 THEN Len(h) ELSE 5)
         /\ \A i \in 1..Len(list) :
               /\ list[i].type = h[Len(h) + 1 - i].type
               /\ list[i].timestamp = h[Len(h) + 1 - i].timestamp

\* C22: renderHistory displays the last min(n, 5) entries of a history of
\* length n, newest first, each with its type, and the placeholder for an
\* empty history: so reads the list after fetchHistory has rendered the
\* history it received, and after handleLogin has rendered the empty one.
C22_RenderHistoryLastFive ==
    [][/\ (last'.op = "fetchHistory" /\ last'.tag = "ok")
            => Displays(ui'.historyList, store'.history)
       /\ (last'.op = "handleLogin" /\ last'.tag = "success")
            => Displays(ui'.historyList, <<>>)]_vars

\* C22 witness: a history of seven entries was rendered: five are shown, the
\* seventh first and the third last.
C22_Witness ==
    /\ last.op = "fetchHistory" /\ last.tag = "ok"
    /\ Len(store.history) = 7
    /\ Len(ui.historyList) = 5
    /\ ui.historyList[1] = store.history[7]
    /\ ui.historyList[5] = store.history[3]


\* C23: when a successful handlePunch has run to its end, finally block
\* included, the button reads 'Punch Out' and the status 'Online' after a
\* punch-in that left punchInTime stored, and 'Punch In' and 'Offline' after
\* a punch-out that left it absent.
C23_LabelFollowsPunch ==
    [][(punch.pc = "hist" /\ last'.op = "handlePunch" /\ last'.tag = "done")
       => IF punch.type = "in"
          THEN Truthy(store'.punchInTime)
               => (ui'.btnText = "Punch Out" /\ ui'.statusText = "Online")
          ELSE ~Truthy(store'.punchInTime)
               => (ui'.btnText = "Punch In" /\ ui'.statusText = "Offline")]_vars


\* the orders in which the answers to /me, /user/status and /punch/history
\* may arrive
ArrivalOrders ==
    {<<"me", "status", "hist">>, <<"me", "hist", "status">>,
     <<"status", "me", "hist">>, <<"status", "hist", "me">>,
     <<"hist", "me", "status">>, <<"hist", "status", "me">>}

\* the handleLogout invocations in flight run to their end
LogoutsSettled(w, v) ==
    IF LogoutsInFlight(w) = 0 THEN w
    ELSE logoutFinish([w EXCEPT !.logouts = NoLogouts, !.ui.logoutDisabled = FALSE],
                      v, TRUE)

\* the answer r to request k arrives in the state ws of the handlers and of
\* syncState at time t; a logout it forces has settled before the next one
Arrives(ws, k, r, v, t) ==
    LET res == IF k = "me"
               THEN SyncAdvance(fetchMeDone(ws.w, v, r), [ws.s EXCEPT !.me = "idle"], v)
               ELSE IF k = "hist"
               THEN SyncAdvance(fetchHistoryDone(ws.w, v, r),
                                [ws.s EXCEPT !.hist = "idle"], v)
               ELSE IF statusReadsLocal(v, r)
               THEN SyncAdvance(fetchStatusApply(ws.w, v, r.isIn, ServerTimes[r.sv],
                                                 ws.w.store.punchInTime, t),
                                [ws.s EXCEPT !.status = "idle"], v)
               ELSE SyncAdvance(fetchStatusDone(ws.w, v, r, t),
                                [ws.s EXCEPT !.status = "idle"], v)
    IN [w |-> LogoutsSettled(res.w, v), s |-> res.s]

\* storage and view once the three answers rs have arrived in the order o
SyncOutcome(ws, o, rs, v, t) ==
    LET end == Arrives(Arrives(Arrives(ws, o[1], rs[o[1]], v, t),
                               o[2], rs[o[2]], v, t),
                       o[3], rs[o[3]], v, t).w
    IN [token |-> end.store.token, user |-> end.store.user,
        punchInTime |-> end.store.punchInTime, history |-> end.store.history,
        view |-> end.ui.view]

\* C24: when syncState has issued its three requests at once, then for any
\* answers to /me, /user/status and /punch/history the storage (token, user,
\* punchInTime, history) and the view are in the end the same for every
\* order in which the answers arrive.
C24_AnyArrivalOrder ==
    (/\ sync.me = "req" /\ sync.hist = "req" /\ sync.status = "req"
     /\ LogoutsInFlight(World) = 0)
    => \A rm \in MeResponses, rs \in StatusResponses, rh \in HistoryResponses(now) :
          \A o1, o2 \in ArrivalOrders :
             SyncOutcome([w |-> World, s |-> sync], o1,
                         [me |-> rm, status |-> rs, hist |-> rh], variant, now)
             = SyncOutcome([w |-> World, s |-> sync], o2,
                           [me |-> rm, status |-> rs, hist |-> rh], variant, now)


\* C25: the punch control is disabled from the click that starts handlePunch
\* until the invocation completes, so no second click starts an invocation
\* that sends its own request: two POST /punch/action of the same type are
\* never in flight together.
C25_OneRequestInFlight ==
    ~(punch.pc = "req" /\ punch2.pc = "req" /\ punch.type = punch2.type)


\* C26: savedCreds is written only by a successful handleLogin made with
\* 'remember me' checked, which stores the credentials of the form; a
\* successful login with it unchecked removes savedCreds, a failed login
\* leaves it as it is, and no other step stores credentials.  Hence
\* savedCreds is present only if the most recent successful login was made
\* with 'remember me' checked.
C26_SavedCredsOnlyIfRemembered ==
    [][IF last'.op = "handleLogin" /\ last'.tag = "success"
       THEN store'.savedCreds =
                (IF last'.login.remember
                 THEN [email |-> trim(last'.login.email),
                       password |-> last'.login.password]
                 ELSE NoCreds)
       ELSE IF last'.op = "handleLogin"
       THEN store'.savedCreds = store.savedCreds
       ELSE store'.savedCreds \in {store.savedCreds, NoCreds}]_vars

\* C26 witness: a successful login made with 'remember me' checked has
\* stored the credentials.
C26_Witness ==
    /\ last.op = "handleLogin" /\ last.tag = "success"
    /\ last.login.remember
    /\ store.savedCreds = [email |-> trim(last.login.email),
                           password |-> last.login.password]
    /\ store.savedCreds # NoCreds

\* C27: handleLogout removes token and user from storage, stops the timer
\* and shows the login view, whether POST /logout has succeeded, returned an
\* error status or failed at transport.
C27_LogoutWhateverTheAnswer ==
    [][(last'.op = "handleLogout" /\ last'.resp \in LogoutOutcomes)
       => /\ store'.token = NoToken
          /\ store'.user = NoUser
          /\ timerInterval' = 0
          /\ liveTimers' = {}
          /\ ui'.view = "login"]_vars

\* C27 witness: a POST /logout that failed at transport has ended a logout
\* begun with a token stored.
C27_Witness ==
    /\ last.op = "handleLogout" /\ last.resp = "netfail"
    /\ last.token # NoToken
    /\ store.token = NoToken
    /\ ui.view = "login"


\* C28: a toast stays visible for 3 seconds from the moment it is shown
\* unless a newer one replaces it, and the newer one is visible for its own
\* 3 seconds: while the timeout of the latest showToast is pending, the
\* toast is visible.
C28_ToastVisibleThreeSeconds ==
    (\E due \in toastTimers : due > now) => ui.toastShown


\* text reads H:M:S for the elapsed time e >= 0: hours (not reduced mod 24),
\* minutes and seconds of e in decimal digits, the hours in two digits or
\* more, the minutes and the seconds in two
ReadsHMS(text, e) ==
    LET n == Len(text)
    IN /\ n >= 8
       /\ text[n - 5] = ":" /\ text[n - 2] = ":"
       /\ ToNumber(SubSeq(text, 1, n - 6)) = e \div 3600000
       /\ ToNumber(SubSeq(text, n - 4, n - 3)) = (e % 3600000) \div 60000
       /\ ToNumber(SubSeq(text, n - 1, n)) = (e % 60000) \div 1000

\* C29: on every tick the timer display reads the time elapsed since the
\* startTime of the interval as H:M:S, each part zero-padded to two digits
\* at least, the hours not reduced mod 24, for every elapsed time >= 0.
C29_TimerReadsElapsed ==
    [][now' # now
       => \A r \in liveTimers' :
             now' - r.start >= 0 => ReadsHMS(ui'.timerDisplay, now' - r.start)]_vars

\* C29 witness: a tick has come 101 hours after the punch-in (100 h 1 s and
\* 59 min 59 s), and the display reads 101:00:00.
C29_Witness ==
    /\ ticks > 0
    /\ \E r \in liveTimers : now - r.start = 101 * MS_PER_HOUR
    /\ ui.timerDisplay = <<"1", "0", "1", ":", "0", "0", ":", "0", "0">>


\* C30: while the dashboard is shown and a punchInTime p is stored, the punch
\* button carries the btn-disabled marker exactly while now - p is less than
\* 2 hours, as time passes: a marker that is right before a span of time has
\* passed is right after it, with no sync, punch or reload in between.
C30_MarkerFollowsTime ==
    [][(/\ now' # now
        /\ ui.view = "dashboard"
        /\ Truthy(store.punchInTime)
        /\ ui.btnMarked <=> (now - store.punchInTime < PUNCH_DELAY_MS))
       => (ui'.btnMarked <=> (now' - store'.punchInTime < PUNCH_DELAY_MS))]_vars


\* C31: a /punch/action request has type 'out' exactly when local storage
\* held a punchInTime when handlePunch read it and type 'in' otherwise, its
\* timestamp is floor(now / 1000), and a punch-in that succeeds stores that
\* same now as punchInTime (looked at when the refresh request follows the
\* write, the session being still there).
C31_RequestTypeAndTimestamp ==
    [][/\ (last'.op = "handlePunch" /\ last'.tag = "sent")
           => /\ punch'.type = (IF store.punchInTime # Absent THEN "out" ELSE "in")
              /\ punch'.timestamp = MathFloor(now, 1000)
       /\ (last'.op = "handlePunch" /\ last'.tag = "in" /\ punch'.pc # "idle")
           => /\ punch.timestamp = MathFloor(store'.punchInTime, 1000)
              /\ store'.punchInTime = punch.now]_vars


\* the response is HTTP 200 with a JSON body that reports explicit success
\* or carries no explicit error
ReportsSuccess(r) ==
    /\ r.kind = "json"
    /\ r.http = 200
    /\ (r.status = "success" \/ r.success \/ ~(r.error \/ r.status = "error"))

\* the label, the class and the status text driven by the punch state
PunchUIState(u) == <<u.btnText, u.btnCls, u.statusText>>

\* C32: whatever answer /punch/action gives to the request in flight,
\* handlePunch writes the stored punchInTime (the instant of the click for a
\* punch-in, nothing for a punch-out) exactly when the answer is HTTP 200
\* with a body that reports success or no error; on any other answer the
\* stored punchInTime, the timer and the punch UI state stay as they were.
C32_SuccessExactlyOn200 ==
    (punch.pc = "req" /\ store.token # NoToken) =>
        \A r \in PunchResponses :
            LET res == punchSettled(World, variant, punch, r, now)
            IN IF ReportsSuccess(r)
               THEN /\ res.p.pc # "idle"
                    /\ res.w.store.punchInTime =
                           (IF punch.type = "in" THEN punch.now ELSE Absent)
               ELSE /\ res.p.pc = "idle"
                    /\ res.w.store.punchInTime = store.punchInTime
                    /\ res.w.liveTimers = liveTimers
                    /\ res.w.timerInterval = timerInterval
                    /\ PunchUIState(res.w.ui) = PunchUIState(ui)


\* the invocation has a request of apiFetch in flight
PunchRequest(p) == p.pc \in {"req", "status", "hist"}

\* the requests of the startup sync that are in flight
SyncRequests(s) == {k \in {"me", "hist", "status"} : s[k] = "req"}

\* the step ran into an apiFetch, or began a handlePunch, and found no token
FoundNoToken ==
    \/ last'.op = "handlePunch" /\ last'.tag \in {"noToken", "in", "out"}
    \/ sync.status = "wait" /\ sync'.status # "wait" /\ opens' = opens

\* C33: a request is sent only while storage holds a token and carries that
\* token; an apiFetch, and a handlePunch, that finds no token in storage
\* sends nothing, ends its caller and runs handleLogout, which shows the
\* login view.
C33_NoRequestWithoutToken ==
    [][/\ (PunchRequest(punch') /\ punch'.pc # punch.pc)
           => (store.token # NoToken /\ punch'.token = store.token)
       /\ (SyncRequests(sync') # {}
              /\ (opens' # opens \/ SyncRequests(sync') \ SyncRequests(sync) # {}))
           => (store.token # NoToken /\ sync'.token = store.token)
       /\ (store.token = NoToken /\ FoundNoToken)
           => /\ (PunchRequest(punch') => punch' = punch)
              /\ SyncRequests(sync') \subseteq SyncRequests(sync)
              /\ store'.token = NoToken
              /\ ui'.view = "login"
              /\ ui'.toast.msg = "loggedOut"]_vars

\* C33 witness: a punch-in was accepted after a logout had removed the
\* token; the refresh found no token, sent nothing and logged out
C33_Witness ==
    /\ last.op = "handlePunch" /\ last.tag = "in"
    /\ store.token = NoToken
    /\ punch = NoPunch
    /\ SyncRequests(sync) = {}
    /\ ui.view = "login"
    /\ ui.toast.msg = "loggedOut"


\* C34: a fetchStatus step that stores a punchInTime (a time derived from
\* the server's answer, or the fallback) does so only when storage holds no
\* punchInTime at that moment, so the one a successful punch-in has written
\* is never replaced.
C34_StatusWritesOnlyIfAbsent ==
    [][(/\ last'.op = "fetchStatus"
        /\ store'.punchInTime # Absent
        /\ store'.punchInTime # store.punchInTime)
       => store.punchInTime = Absent]_vars


\* C35: when a successful handleLogin has ended, the punch UI agrees with
\* storage: with a punchInTime stored the button reads 'Punch Out', the
\* status 'Online' and the timer runs from it; with none stored the button
\* reads 'Punch In', the status 'Offline' and no timer runs.
C35_LoginShowsStoredPunch ==
    [][(last'.op = "handleLogin" /\ last'.tag = "success")
       => IF store'.punchInTime # Absent
          THEN /\ ShowsPunchedIn(ui')
               /\ RunningFrom(liveTimers', timerInterval', store'.punchInTime)
          ELSE /\ ui'.btnText = "Punch In"
               /\ ui'.statusText = "Offline"
               /\ timerInterval' = 0]_vars


\* C36: a stored punchInTime is never later than the current time; hence
\* the timer display has no negative field and the minutes of a
\* minimum-stay refusal are between 1 and 120.
C36_PunchInTimeNotLater ==
    /\ (store.punchInTime \notin {Absent, NaN} => store.punchInTime <= now)
    /\ ~Includes(ui.timerDisplay, "-")
    /\ (ui.toast.msg = "minstay" => ui.toast.n \in 1..120)


\* C37: once a punch-out has succeeded on a calendar day, no handlePunch of
\* that day sends a request to /punch/action, whatever the history refresh
\* after the punch-out returned.
C37_NoRequestAfterPunchOutToday ==
    [][(last'.op = "handlePunch" /\ last'.tag = "sent")
       => shift.outDay # toDateString(now)]_vars


\* C38: local storage holds a user only while it holds a token: after
\* handleLogout has removed both, nothing writes the user back before the
\* next successful login.
C38_UserOnlyWithToken == store.user # NoUser => store.token # NoToken


\* the call of /punch/action eventually completes
PunchActionCompletes == WF_vars(handlePunchResponse \/ handlePunchStorageError)

\* the refresh requests that follow an accepted punch eventually complete
RefreshCompletes == WF_vars(handlePunchStatus) /\ WF_vars(handlePunchHistory)

LocalReadSteps ==
    [][(punch.pc = "got" /\ punch' # punch)
          <=> (handlePunchStatusLocal /\ handlePunchStatusLocalRecord)]_vars

====
